---- MODULE Spec2Model ----
(***************************************************************************)
(* A model of the mount-namespace manager of the NeoZygisk daemon          *)
(* (zygiskd/src/mount.rs): the mount cleaning algorithm, the fork-and-pin  *)
(* capture of a namespace FD into a write-once slot, and the switch of a   *)
(* thread into another mount namespace.                                    *)
(*                                                                         *)
(* Strings are modelled as sequences of chunks, so that str::starts_with   *)
(* is the prefix relation on sequences: "/data/adb/modules" is             *)
(* <<"/data", "/adb", "/modules">>.  An Option<T> is a set with at most    *)
(* one element: None is {} and Some(x) is {x}.                             *)
(***************************************************************************)
EXTENDS Integers, Sequences, FiniteSets, TLC

\* ------------------------------------------------------------------ bounds
\* Largest number of entries of a mount table handed to the clean algorithm.
MaxMounts == 2

\* How many times in a row the clean algorithm is run on one namespace.
MaxCleanRuns == 2

\* ------------------------------------------------------------------ strings
None == {}

Some(x) == {x}

\* str::starts_with
StartsWith(s, prefix) ==
    /\ Len(prefix) <= Len(s)
    /\ SubSeq(s, 1, Len(prefix)) = prefix

Min(S) == CHOOSE x \in S : \A y \in S : x <= y

\* The literals of clean_mount_namespace.
AdbModulesRoot == <<"/adb", "/modules">>

DataAdbModules == <<"/data", "/adb", "/modules">>

LoopPrefix == <<"/dev/block/", "loop">>

\* root_impl::RootImpl, without the version payload.
RootImpls == {"None", "Multiple", "APatch", "KernelSU", "Magisk"}

\* ------------------------------------------------------------ mount tables
\* A mount table is the sequence of MountInfo records of /proc/self/mountinfo,
\* in the order of the file.  parent is the mnt_id of the mount this one is
\* mounted on (0: the root file system, which is not an entry); locked marks
\* a mount the kernel refuses to unmount on its own (umount2 fails on it).
Root_ == <<"/">>

Shape(root, point, source, locked) ==
    [root |-> root, mount_point |-> point, mount_source |-> source, locked |-> locked]

\* The shapes of entries: each way an entry can meet, or just miss, one of
\* the four conditions of the selection.
Shapes ==
    { Shape(Root_, <<"/system">>, Some(<<"tmpfs">>), FALSE),
      Shape(<<"/adb", "/modules", "/m">>, <<"/system">>, Some(<<"/dev/block/", "dm-1">>), FALSE),
      Shape(<<"/adb", "/modules", "_update">>, <<"/vendor">>, Some(<<"/dev/block/", "dm-1">>), FALSE),
      Shape(Root_, DataAdbModules, Some(<<"/dev/block/", "loop", "7">>), FALSE),
      Shape(Root_, DataAdbModules, Some(<<"tmpfs">>), FALSE),
      Shape(Root_, <<"/data", "/adb", "/modules", "/m">>, Some(<<"tmpfs">>), FALSE),
      Shape(Root_, <<"/data", "/adb">>, Some(<<"tmpfs">>), FALSE),
      Shape(Root_, <<"/system">>, Some(<<"/dev/block/", "loop", "7">>), FALSE),
      Shape(Root_, <<"/system">>, Some(<<"KSU">>), FALSE),
      Shape(Root_, <<"/system">>, Some(<<"KSU">>), TRUE),
      Shape(Root_, <<"/system">>, Some(<<"magisk">>), FALSE),
      Shape(Root_, <<"/vendor">>, Some(<<"APatch">>), FALSE),
      Shape(Root_, <<"/vendor">>, None, FALSE) }

MkEntry(shape, id, parent) ==
    [mnt_id |-> id, parent |-> parent, root |-> shape.root,
     mount_point |-> shape.mount_point, mount_source |-> shape.mount_source,
     locked |-> shape.locked]

\* ------------------------------------------------------------ the kernel
\* The entry of table t with mount id id.
EntryOf(t, id) == t[CHOOSE i \in 1..Len(t) : t[i].mnt_id = id]

\* Path resolution crossing mount points: standing in mount cur at path
\* point, enter the mount that sits there, and the one stacked on that one.
RECURSIVE Climb(_, _, _)
Climb(t, cur, point) ==
    LET on == { i \in 1..Len(t) : t[i].parent = cur /\ t[i].mount_point = point }
    IN  IF on = {} THEN cur ELSE Climb(t, t[Min(on)].mnt_id, point)

\* The mount a path resolves into, walking the path from the root.
RECURSIVE Walk(_, _, _, _)
Walk(t, cur, path, k) ==
    IF k > Len(path) THEN cur
    ELSE Walk(t, Climb(t, cur, SubSeq(path, 1, k)), path, k + 1)

\* A mount and every mount below it.
RECURSIVE Subtree(_, _)
Subtree(t, ids) ==
    LET more == ids \cup { t[i].mnt_id : i \in { j \in 1..Len(t) : t[j].parent \in ids } }
    IN  IF more = ids THEN ids ELSE Subtree(t, more)

\* umount2(path, MNT_DETACH): the path is resolved to the topmost mount on
\* it; the call fails (EINVAL) when the path is not the root of a mount or
\* the mount is locked, and else detaches that mount with all below it.
Umount2(t, path) ==
    LET top == Walk(t, 0, path, 1)
    IN  IF top = 0 \/ EntryOf(t, top).mount_point # path \/ EntryOf(t, top).locked
        THEN [ok |-> FALSE, mounts |-> t]
        ELSE LET gone == Subtree(t, {top})
             IN  [ok |-> TRUE, mounts |-> SelectSeq(t, LAMBDA e : e.mnt_id \notin gone)]

\* The tables the kernel can show, built as the kernel builds them: mount
\* attaches the new mount on top of whatever its mount point resolves to at
\* that moment (the root file system, a mount above it on the path, or the
\* mount already sitting on that very place, on which it stacks), under a
\* mount id that is free.  Mount ids are reused, so a later mount can have a
\* smaller id than an earlier one.
Extend(t) ==
    LET used == { t[i].mnt_id : i \in 1..Len(t) }
    IN  UNION { { Append(t, MkEntry(s, id, Walk(t, 0, s.mount_point, 1))) :
                    id \in (1..MaxMounts) \ used } :
                s \in Shapes }

RECURSIVE TablesOfLen(_)
TablesOfLen(n) ==
    IF n = 0 THEN { <<>> } ELSE UNION { Extend(t) : t \in TablesOfLen(n - 1) }

MountTables == UNION { TablesOfLen(n) : n \in 0..MaxMounts }

\* ------------------------------------------------- clean_mount_namespace
\* The marker the active root implementation mounts its file systems from.
RootSource(impl) ==
    CASE impl = "APatch" -> Some(<<"APatch">>)
      [] impl = "KernelSU" -> Some(<<"KSU">>)
      [] impl = "Magisk" -> Some(<<"magisk">>)
      [] OTHER -> None

\* Under KernelSU, the source of the first mount at /data/adb/modules, kept
\* only when it is a loop device.
KsuModuleSource(mount_infos, impl) ==
    IF impl = "KernelSU"
    THEN LET at == { i \in 1..Len(mount_infos) :
                        mount_infos[i].mount_point = DataAdbModules }
         IN  IF at = {} THEN None
             ELSE { s \in mount_infos[Min(at)].mount_source : StartsWith(s, LoopPrefix) }
    ELSE None

\* ShouldUnmount without the is_some() guards of the two source tests.
ShouldUnmount_NoGuards(info, root_source, ksu_module_source) ==
    \/ StartsWith(info.root, AdbModulesRoot)
    \/ StartsWith(info.mount_point, DataAdbModules)
    \/ info.mount_source = root_source
    \/ info.mount_source = ksu_module_source

ShouldUnmount(info, root_source, ksu_module_source) ==
    \/ StartsWith(info.root, AdbModulesRoot)
    \/ StartsWith(info.mount_point, DataAdbModules)
    \/ (root_source # None /\ info.mount_source = root_source)
    \/ (ksu_module_source # None /\ info.mount_source = ksu_module_source)

\* The entries pushed to unmount_targets, in the order of the mount table.
UnmountTargets(mount_infos, impl) ==
    SelectSeq(mount_infos,
              LAMBDA info : ShouldUnmount(info, RootSource(impl),
                                          KsuModuleSource(mount_infos, impl)))

\* sort_by_key(|a| Reverse(a.mnt_id)): a stable sort, largest mnt_id first.
RECURSIVE InsertByKey(_, _)
InsertByKey(sorted, x) ==
    IF sorted = <<>> THEN <<x>>
    ELSE IF Head(sorted).mnt_id >= x.mnt_id
         THEN <<Head(sorted)>> \o InsertByKey(Tail(sorted), x)
         ELSE <<x>> \o sorted

\* SortTargets with the sort left out: the targets in the order of the table.
SortTargets_Unsorted(targets) == targets

RECURSIVE SortTargets(_)
SortTargets(targets) ==
    IF targets = <<>> THEN <<>>
    ELSE InsertByKey(SortTargets(SubSeq(targets, 1, Len(targets) - 1)),
                     targets[Len(targets)])

\* The loop over the sorted targets: umount2 on the mount point of each,
\* a failure logged and the loop going on.  log records each call.
\* UnmountLoop that gives up at the first umount2 that fails.
RECURSIVE UnmountLoop_StopOnFailure(_, _, _)
UnmountLoop_StopOnFailure(t, targets, log) ==
    IF targets = <<>> THEN [mounts |-> t, log |-> log]
    ELSE LET r == Umount2(t, Head(targets).mount_point)
             logged == Append(log, [mnt_id |-> Head(targets).mnt_id, ok |-> r.ok])
         IN  IF r.ok THEN UnmountLoop_StopOnFailure(r.mounts, Tail(targets), logged)
             ELSE [mounts |-> t, log |-> logged]

RECURSIVE UnmountLoop(_, _, _)
UnmountLoop(t, targets, log) ==
    IF targets = <<>> THEN [mounts |-> t, log |-> log]
    ELSE LET r == Umount2(t, Head(targets).mount_point)
         IN  UnmountLoop(r.mounts, Tail(targets),
                         Append(log, [mnt_id |-> Head(targets).mnt_id, ok |-> r.ok]))

\* clean_mount_namespace on the namespace whose mount table is mount_infos:
\* the table it leaves and the log of its umount2 calls.
CleanMountNamespace(mount_infos, impl) ==
    UnmountLoop(mount_infos, SortTargets(UnmountTargets(mount_infos, impl)), <<>>)

\* ------------------------------------------------ switch_mount_namespace
\* The mount namespace of the process with this pid: pid 1 is init, and no
\* process has another pid (opening its /proc entry fails).
ProcNs(pid) == IF pid = 1 THEN "init" ELSE "gone"

Pids == {1, 2}

\* The directories that exist in a namespace; /mnt/scratch exists in none but
\* the one a process was started in.
Dirs(ns) ==
    IF ns = "boot" THEN { Root_, <<"/system">>, <<"/data", "/adb">>, <<"/mnt", "/scratch">> }
    ELSE { Root_, <<"/system">>, <<"/data", "/adb">> }

\* The working directory of a process whose directory has been unlinked:
\* current_dir() fails on it.
Unlinked == <<>>

\* switch_mount_namespace without the set_current_dir that follows setns.
SwitchMountNamespace_NoRestore(proc, pid) ==
    IF proc.cwd = Unlinked \/ ProcNs(pid) = "gone"
    THEN [ok |-> FALSE, ns |-> proc.ns, cwd |-> proc.cwd]
    ELSE [ok |-> TRUE, ns |-> ProcNs(pid), cwd |-> Root_]

\* switch_mount_namespace(pid) in a process in namespace proc.ns with working
\* directory proc.cwd: the result and the process after the call.
\* current_dir fails on an unlinked directory and the open fails on a pid
\* that no process has, both before anything has changed.  setns moves the
\* working directory to the root of the namespace entered, and
\* set_current_dir walks the saved path in that namespace.
SwitchMountNamespace(proc, pid) ==
    IF proc.cwd = Unlinked THEN [ok |-> FALSE, ns |-> proc.ns, cwd |-> proc.cwd]
    ELSE LET cwd == proc.cwd
             after_setns == [ns |-> ProcNs(pid), cwd |-> Root_]
         IN  IF ProcNs(pid) = "gone"
             THEN [ok |-> FALSE, ns |-> proc.ns, cwd |-> proc.cwd]
             ELSE IF cwd \in Dirs(after_setns.ns)
                  THEN [ok |-> TRUE, ns |-> after_setns.ns, cwd |-> cwd]
                  ELSE [ok |-> FALSE, ns |-> after_setns.ns, cwd |-> after_setns.cwd]

\* ------------------------------------------------------------------ state
\* Threads of the daemon that call into the MountNamespaceManager.
NumThreads == 2

\* Calls of save_mount_namespace and get_namespace_fd made in one run.
MaxCalls == 2

Threads == 1..NumThreads

Kinds == {"Clean", "Root"}

\* File descriptor numbers of the daemon; open() and pipe() return the lowest
\* free ones.  At most two are pinned in the slots and two are in use by each
\* call in flight.
FdNums == 3..(6 + 2 * NumThreads)

VARIABLES
    cl_impl,      \* root_impl::get() in the process that cleans
    cl_mounts,    \* the mount table of the namespace being cleaned
    cl_before,    \* the table the last run of the algorithm started from
    cl_log,       \* the umount2 calls of the last run, in order
    cl_runs,      \* how many runs have completed
    cl_first,     \* the table the first run left
    root_impl,    \* root_impl::get() in the daemon
    ns_shared,    \* the mounts of the namespaces are shared (peers of their copies)
    ns_mounts,    \* the mount table of each namespace that processes live in
    daemon,       \* the daemon process: its namespace and working directory
    mnt_ns_fd,    \* clean_mnt_ns_fd and root_mnt_ns_fd: the FD held, 0 if unset
    fd_table,     \* what each FD number of the daemon refers to
    pc,           \* where each thread is in save_mount_namespace
    call,         \* the arguments and locals of the call each thread is in
    child,        \* the capture child that each thread's call forked
    ret,          \* what each thread's last call returned, until its next call
    ncalls,       \* calls made so far
    forks,        \* capture children forked so far, by kind
    first_ok,     \* the FD of the first Ok of save_mount_namespace, by kind
    nfailed,      \* system calls of captures that have failed so far
    b_pc,         \* where the process is between main and its exit
    b_mode,       \* the first command-line argument
    b_proc,       \* the starting process: its namespace and working directory
    b_before,     \* the process as it was before switch_mount_namespace
    b_switch,     \* what switch_mount_namespace(1) returned: "none", "ok", "err"
    b_root,       \* root_impl::get(), "unset" before root_impl::setup
    b_trace,      \* the steps of the startup taken so far
    b_exit        \* the exit code of the process, -1 while it runs

clVars == <<cl_impl, cl_mounts, cl_before, cl_log, cl_runs, cl_first>>

capVars == <<root_impl, ns_shared, ns_mounts, daemon, mnt_ns_fd, fd_table, pc, call, child,
             ret, ncalls, forks, first_ok, nfailed>>

bootVars == <<b_pc, b_mode, b_proc, b_before, b_switch, b_root, b_trace, b_exit>>

VARIABLES
    f_width,      \* size_of::<usize>() of the build: 4 or 8
    f_wire,       \* the bytes written to the stream and not yet read
    f_closed,     \* the writing end has been closed
    f_written,    \* what has been written to the stream so far, in order
    f_nread,      \* reads made so far
    f_aligned,    \* every read so far was the one matching the write at its place
    f_used,       \* bytes taken from the stream so far
    f_last,       \* what the last read returned
    f_reader      \* the reading thread: "running", "panicked" or "aborted"

frameVars == <<f_width, f_wire, f_closed, f_written, f_nread, f_aligned,
               f_used, f_last, f_reader>>

VARIABLES
    s_current,    \* /proc/self/attr/current of the process
    s_sockcreate, \* attr/sockcreate of the calling thread, "" when never set
    s_pc,         \* where the thread is in unix_datagram_sendto
    s_path,       \* the path argument of the call
    s_socket,     \* the socket of the call: "none", "open", "connected"
    s_made_with,  \* attr/sockcreate when the socket of the call was created
    s_ret,        \* what the last call returned and the step that failed
    s_ncalls      \* calls made so far

sendVars == <<s_current, s_sockcreate, s_pc, s_path, s_socket, s_made_with, s_ret,
              s_ncalls>>

VARIABLES
    k_sock,       \* the socket behind the UnixStream, as the kernel has it
    k_last,       \* the last is_socket_alive: what poll gave and what it returned
    k_nchecks     \* calls of is_socket_alive so far

pollVars == <<k_sock, k_last, k_nchecks>>

VARIABLES
    d_root,       \* the RootImpl the daemon found at startup
    d_conn,       \* handler thread -> the connection it serves and where it is
    d_slot,       \* module -> its cached companion socket
    d_lock,       \* module -> the handler holding its companion mutex, or 0
    d_spawned,    \* companions spawned so far
    d_begun,      \* ZygoteRestart actions begun
    d_done,       \* ZygoteRestart actions completed
    d_accepted,   \* connections accepted so far
    d_last,       \* the connection closed last: what was sent, run and answered
    d_rejected,   \* a connection was closed for an action byte that is no action
    d_dropped     \* modules a ZygoteRestart has dropped a cached socket of

dispVars == <<d_root, d_conn, d_slot, d_lock, d_spawned, d_begun, d_done,
              d_accepted, d_last, d_rejected, d_dropped>>

ioVars == <<frameVars, sendVars, pollVars, dispVars>>

notFrameVars == <<sendVars, pollVars, dispVars>>

notSendVars == <<frameVars, pollVars, dispVars>>

notPollVars == <<frameVars, sendVars, dispVars>>

notDispVars == <<frameVars, sendVars, pollVars>>

oldVars == <<clVars, capVars, bootVars>>

vars == <<clVars, capVars, bootVars, ioVars>>

\* What an FD number refers to: nothing, an end of a pipe, or a namespace.
Closed == [what |-> "closed", ns |-> "none", mounts |-> <<>>]

PipeEnd == [what |-> "pipe", ns |-> "none", mounts |-> <<>>]

NoCall == [pid |-> 0, kind |-> "none", pipe_reader |-> 0, pipe_writer |-> 0,
           ns_file |-> 0, nread |-> -1]

NoChild == [state |-> "none", ns |-> "none", cwd |-> <<>>, mounts |-> <<>>,
            log |-> <<>>, ready |-> FALSE, fail |-> "none"]

NoRet == [op |-> "none", kind |-> "none", pid |-> 0, ok |-> FALSE, fd |-> 0, fail |-> "none",
          nread |-> -1, stored |-> FALSE, after_ok |-> FALSE,
          child |-> NoChild]

\* The variables of the capture, in a run that does not use them.
CapIdle ==
    /\ root_impl = "None"
    /\ ns_shared = FALSE
    /\ ns_mounts = <<>>
    /\ daemon = [ns |-> "init", cwd |-> Root_]
    /\ mnt_ns_fd = [k \in Kinds |-> 0]
    /\ fd_table = [n \in FdNums |-> Closed]
    /\ pc = [t \in Threads |-> "idle"]
    /\ call = [t \in Threads |-> NoCall]
    /\ child = [t \in Threads |-> NoChild]
    /\ ret = [t \in Threads |-> NoRet]
    /\ ncalls = 0
    /\ forks = [k \in Kinds |-> 0]
    /\ first_ok = [k \in Kinds |-> 0]
    /\ nfailed = 0

\* The variables of the startup, in a run that starts after it.
BootIdle ==
    /\ b_pc = "done"
    /\ b_mode = "daemon"
    /\ b_proc = [ns |-> "init", cwd |-> Root_]
    /\ b_before = [ns |-> "init", cwd |-> Root_]
    /\ b_switch = "ok"
    /\ b_root = "unset"
    /\ b_trace = <<>>
    /\ b_exit = 0

\* What a call that has not been made returned.
NoResult == [op |-> "none", status |-> "none", val |-> 0, bytes |-> <<>>, rest |-> <<>>,
             eof |-> FALSE, bad_utf8 |-> FALSE]

\* The variables of a framed stream, in a run that has none.
FrameIdle ==
    /\ f_width = 8
    /\ f_wire = <<>>
    /\ f_closed = TRUE
    /\ f_written = <<>>
    /\ f_nread = 0
    /\ f_aligned = TRUE
    /\ f_used = 0
    /\ f_last = NoResult
    /\ f_reader = "running"

\* The variables of the datagram sender, in a run that sends nothing.
SendIdle ==
    /\ s_current = "u:r:zygote:s0"
    /\ s_sockcreate = ""
    /\ s_pc = "idle"
    /\ s_path = "none"
    /\ s_socket = "none"
    /\ s_made_with = ""
    /\ s_ret = [status |-> "none", fail |-> "none"]
    /\ s_ncalls = 0

\* A connected socket nothing has happened to.
FreshSocket == [fd_open |-> TRUE, peer |-> "open", pending |-> 0, err |-> FALSE]

NoCheck == [ret |-> 0, revents |-> {}, alive |-> FALSE, sock |-> FreshSocket]

\* The variables of the liveness check, in a run that checks no socket.
PollIdle ==
    /\ k_sock = FreshSocket
    /\ k_last = NoCheck
    /\ k_nchecks = 0

\* The number of modules in the catalog the daemon built at startup.
NumModules == 2

Modules == 1..NumModules

\* The handler threads: two connections are served at a time.
Handlers == {1, 2}

\* A handler thread without a connection.
NoConn ==
    [pc |-> "free", byte |-> -1, mod |-> 0, epoch |-> 0, rej |-> FALSE, sock |-> 0,
     found_dead |-> FALSE]

\* An empty companion socket slot.
NoSock == [id |-> 0, born |-> 0, dead |-> FALSE]

NoLast ==
    [byte |-> -1, ran |-> "none", status |-> "none", mod |-> 0, sock |-> NoSock,
     reused |-> FALSE, epoch |-> 0, rej |-> FALSE, flags |-> 0]

\* The variables of the dispatcher, in a run that serves no connection.
DispIdle ==
    /\ d_root = "None"
    /\ d_conn = [h \in Handlers |-> NoConn]
    /\ d_slot = [m \in Modules |-> NoSock]
    /\ d_lock = [m \in Modules |-> 0]
    /\ d_spawned = 0
    /\ d_begun = 0
    /\ d_done = 0
    /\ d_accepted = 0
    /\ d_last = NoLast
    /\ d_rejected = FALSE
    /\ d_dropped = {}

IoIdle == FrameIdle /\ SendIdle /\ PollIdle /\ DispIdle

\* The variables of the clean algorithm run, in a run that does not use them.
ClIdle ==
    /\ cl_impl = "None"
    /\ cl_mounts = <<>>
    /\ cl_before = <<>>
    /\ cl_log = <<>>
    /\ cl_runs = 0
    /\ cl_first = <<>>

\* ------------------------------------------------- the clean algorithm run
InitClean ==
    /\ cl_impl \in RootImpls
    /\ cl_mounts \in MountTables
    /\ cl_before = <<>>
    /\ cl_log = <<>>
    /\ cl_runs = 0
    /\ cl_first = <<>>
    /\ CapIdle
    /\ BootIdle
    /\ IoIdle

\* One run of clean_mount_namespace in the namespace.
CleanRun ==
    /\ cl_runs < MaxCleanRuns
    /\ LET r == CleanMountNamespace(cl_mounts, cl_impl)
       IN  /\ cl_mounts' = r.mounts
           /\ cl_log' = r.log
           /\ cl_first' = IF cl_runs = 0 THEN r.mounts ELSE cl_first
    /\ cl_before' = cl_mounts
    /\ cl_runs' = cl_runs + 1
    /\ UNCHANGED <<cl_impl, capVars, bootVars, ioVars>>

NextClean == CleanRun

SpecClean == InitClean /\ [][NextClean]_vars

\* ------------------------------------------------- save_mount_namespace
\* The mount table the namespace of init starts with, and the root
\* implementation that made it.
Mounted(shapes) == [i \in 1..Len(shapes) |-> MkEntry(shapes[i][1], shapes[i][2], shapes[i][3])]

KsuTable ==
    Mounted(<< <<Shape(Root_, DataAdbModules, Some(<<"/dev/block/", "loop", "7">>), FALSE), 1, 0>>,
               <<Shape(Root_, <<"/system">>, Some(<<"KSU">>), TRUE), 2, 0>> >>)

CaptureScenarios == { [impl |-> "KernelSU", mounts |-> KsuTable] }

\* The daemon after its startup, in the namespace of init, whose mounts are
\* shared or not.
InitCapture(shared) ==
    /\ \E sc \in CaptureScenarios :
          /\ root_impl = sc.impl
          /\ ns_mounts = [ns \in {"init"} |-> sc.mounts]
    /\ ns_shared = shared
    /\ daemon = [ns |-> "init", cwd |-> Root_]
    /\ mnt_ns_fd = [k \in Kinds |-> 0]
    /\ fd_table = [n \in FdNums |-> Closed]
    /\ pc = [t \in Threads |-> "idle"]
    /\ call = [t \in Threads |-> NoCall]
    /\ child = [t \in Threads |-> NoChild]
    /\ ret = [t \in Threads |-> NoRet]
    /\ ncalls = 0
    /\ forks = [k \in Kinds |-> 0]
    /\ first_ok = [k \in Kinds |-> 0]
    /\ nfailed = 0
    /\ ClIdle
    /\ BootIdle
    /\ IoIdle

\* The mounts of the namespace of init are private.
Init == InitCapture(FALSE)

\* The mounts of the namespace of init are shared.
InitShared == InitCapture(TRUE)

\* The lowest free FD number of a table.
LowestFree(tab) == Min({ n \in FdNums : tab[n] = Closed })

\* get_namespace_storage(kind).get().map(as_raw_fd): 0 stands for None.
CellGet(kind) == mnt_ns_fd[kind]

\* What save_mount_namespace hands back, with the state of the call it ends.
Returned(t, ok, fd, fail, stored) ==
    [op |-> "save", kind |-> call[t].kind, pid |-> call[t].pid, ok |-> ok, fd |-> fd, fail |-> fail,
     nread |-> call[t].nread, stored |-> stored, after_ok |-> FALSE,
     child |-> child[t]]

\* The call of thread t returns: its locals are dropped.
Return(t, ok, fd, fail, stored) ==
    /\ ret' = [ret EXCEPT ![t] = Returned(t, ok, fd, fail, stored)]
    /\ pc' = [pc EXCEPT ![t] = "idle"]
    /\ call' = [call EXCEPT ![t] = NoCall]
    /\ child' = [child EXCEPT ![t] = NoChild]
    /\ first_ok' = IF ok /\ first_ok[call[t].kind] = 0
                   THEN [first_ok EXCEPT ![call[t].kind] = fd]
                   ELSE first_ok

\* Thread t may make a call.
MayCall(t) ==
    /\ pc[t] = "idle"
    /\ ncalls < MaxCalls

\* get_namespace_fd(kind): the FD in the slot, if any.
GetNamespaceFd(t, kind) ==
    /\ MayCall(t)
    /\ ncalls' = ncalls + 1
    /\ ret' = [ret EXCEPT ![t] =
                  [NoRet EXCEPT !.op = "get", !.kind = kind, !.ok = CellGet(kind) # 0,
                                !.fd = CellGet(kind), !.after_ok = first_ok[kind] # 0]]
    /\ UNCHANGED <<root_impl, ns_shared, ns_mounts, daemon, mnt_ns_fd, fd_table, pc, call,
                   child, forks, first_ok, nfailed, clVars, bootVars, ioVars>>

\* save_mount_namespace(pid, kind) is entered: with the slot set it returns
\* the FD in it, and else it goes on to capture.
SaveEnter(t, pid, kind) ==
    /\ MayCall(t)
    /\ ncalls' = ncalls + 1
    /\ IF CellGet(kind) # 0
       THEN /\ ret' = [ret EXCEPT ![t] =
                          [NoRet EXCEPT !.op = "save", !.kind = kind, !.pid = pid, !.ok = TRUE,
                                        !.fd = CellGet(kind)]]
            /\ first_ok' = IF first_ok[kind] = 0
                           THEN [first_ok EXCEPT ![kind] = CellGet(kind)]
                           ELSE first_ok
            /\ UNCHANGED <<pc, call>>
       ELSE /\ pc' = [pc EXCEPT ![t] = "pipe"]
            /\ call' = [call EXCEPT ![t] = [NoCall EXCEPT !.pid = pid, !.kind = kind]]
            /\ ret' = [ret EXCEPT ![t] = NoRet]
            /\ UNCHANGED first_ok
    /\ UNCHANGED <<root_impl, ns_shared, ns_mounts, daemon, mnt_ns_fd, fd_table, child, forks, nfailed, clVars, bootVars, ioVars>>

\* pipe() succeeds: two new FDs.
Pipe(t) ==
    /\ pc[t] = "pipe"
    /\ LET r == LowestFree(fd_table)
           w == LowestFree([fd_table EXCEPT ![r] = PipeEnd])
       IN  /\ fd_table' = [fd_table EXCEPT ![r] = PipeEnd, ![w] = PipeEnd]
           /\ call' = [call EXCEPT ![t].pipe_reader = r, ![t].pipe_writer = w]
    /\ pc' = [pc EXCEPT ![t] = "fork"]
    /\ UNCHANGED <<root_impl, ns_shared, ns_mounts, daemon, mnt_ns_fd, child, ret, ncalls,
                   forks, first_ok, nfailed, clVars, bootVars, ioVars>>

\* pipe() fails: the error is returned.
PipeFail(t) ==
    /\ pc[t] = "pipe"
    /\ Return(t, FALSE, 0, "pipe", FALSE)
    /\ UNCHANGED <<root_impl, ns_shared, ns_mounts, daemon, mnt_ns_fd, fd_table, ncalls, forks, clVars, bootVars, ioVars>>
    /\ nfailed' = nfailed + 1

\* fork() succeeds: the child starts as a copy of the daemon, and the parent
\* closes its write end of the pipe.
Fork(t) ==
    /\ pc[t] = "fork"
    /\ child' = [child EXCEPT ![t] =
                    [NoChild EXCEPT !.state = "forked", !.ns = daemon.ns, !.cwd = daemon.cwd]]
    /\ forks' = [forks EXCEPT ![call[t].kind] = @ + 1]
    /\ fd_table' = [fd_table EXCEPT ![call[t].pipe_writer] = Closed]
    /\ call' = [call EXCEPT ![t].pipe_writer = 0]
    /\ pc' = [pc EXCEPT ![t] = "read"]
    /\ UNCHANGED <<root_impl, ns_shared, ns_mounts, daemon, mnt_ns_fd, ret, ncalls, first_ok, nfailed, clVars, bootVars, ioVars>>

\* fork() fails: the error is returned and both ends of the pipe are closed.
ForkFail(t) ==
    /\ pc[t] = "fork"
    /\ fd_table' = [fd_table EXCEPT ![call[t].pipe_reader] = Closed,
                                    ![call[t].pipe_writer] = Closed]
    /\ Return(t, FALSE, 0, "fork", FALSE)
    /\ UNCHANGED <<root_impl, ns_shared, ns_mounts, daemon, mnt_ns_fd, ncalls, forks, clVars, bootVars, ioVars>>
    /\ nfailed' = nfailed + 1

\* The child: switch_mount_namespace(pid).unwrap().  A failure panics the
\* child, which closes its end of the pipe without having written to it.
ChildSwitch(t) ==
    /\ child[t].state = "forked"
    /\ LET r == SwitchMountNamespace([ns |-> child[t].ns, cwd |-> child[t].cwd], call[t].pid)
       IN  /\ child' = [child EXCEPT ![t].state = IF r.ok THEN "switched" ELSE "panicked",
                                     ![t].ns = r.ns,
                                     ![t].cwd = r.cwd,
                                     ![t].fail = IF r.ok THEN "none" ELSE "setns"]
           /\ nfailed' = IF r.ok THEN nfailed ELSE nfailed + 1
    /\ UNCHANGED <<root_impl, ns_shared, ns_mounts, daemon, mnt_ns_fd, fd_table, pc, call, ret,
                   ncalls, forks, first_ok, clVars, bootVars, ioVars>>

\* The child of a Clean capture: unshare(NEWNS) gives it a namespace of its
\* own with a copy of the mounts of the namespace it is in, and
\* clean_mount_namespace runs on that copy.  The copy of a shared mount is a
\* peer of it, and an unmount under a shared mount is propagated to the
\* peers: the mounts detached in the copy are detached in the namespace
\* copied too.
ChildClean(t) ==
    /\ child[t].state = "switched"
    /\ call[t].kind = "Clean"
    /\ LET r == CleanMountNamespace(ns_mounts[child[t].ns], root_impl)
       IN  /\ child' = [child EXCEPT ![t].state = "cleaned",
                                     ![t].ns = "private",
                                     ![t].mounts = r.mounts,
                                     ![t].log = r.log]
           /\ ns_mounts' = IF ns_shared
                           THEN [ns_mounts EXCEPT ![child[t].ns] = r.mounts]
                           ELSE ns_mounts
    /\ UNCHANGED <<root_impl, ns_shared, daemon, mnt_ns_fd, fd_table, pc, call, ret,
                   ncalls, forks, first_ok, nfailed, clVars, bootVars, ioVars>>

\* The child of a Clean capture: unshare(NEWNS) fails and the unwrap panics.
ChildUnshareFail(t) ==
    /\ child[t].state = "switched"
    /\ call[t].kind = "Clean"
    /\ child' = [child EXCEPT ![t].state = "panicked", ![t].fail = "unshare"]
    /\ UNCHANGED <<root_impl, ns_shared, ns_mounts, daemon, mnt_ns_fd, fd_table, pc, call, ret,
                   ncalls, forks, first_ok, clVars, bootVars, ioVars>>
    /\ nfailed' = nfailed + 1

\* The child writes the readiness byte and sleeps.
ChildSignal(t) ==
    /\ \/ child[t].state = "cleaned"
       \/ child[t].state = "switched" /\ call[t].kind = "Root"
    /\ child' = [child EXCEPT ![t].state = "sleeping", ![t].ready = TRUE]
    /\ UNCHANGED <<root_impl, ns_shared, ns_mounts, daemon, mnt_ns_fd, fd_table, pc, call, ret,
                   ncalls, forks, first_ok, nfailed, clVars, bootVars, ioVars>>

\* The parent's read of the pipe returns: one byte once the child has
\* written it, none (end of file) once the child has closed the pipe without
\* writing.  The count is not looked at.  The read end is closed.  (A read
\* of a pipe fails only when a signal handler interrupts it, and the daemon
\* installs none.)
Read(t) ==
    /\ pc[t] = "read"
    /\ child[t].state \in {"sleeping", "panicked"}
    /\ call' = [call EXCEPT ![t].nread = IF child[t].ready THEN 1 ELSE 0,
                            ![t].pipe_reader = 0]
    /\ fd_table' = [fd_table EXCEPT ![call[t].pipe_reader] = Closed]
    /\ pc' = [pc EXCEPT ![t] = "open"]
    /\ UNCHANGED <<root_impl, ns_shared, ns_mounts, daemon, mnt_ns_fd, child, ret, ncalls,
                   forks, first_ok, nfailed, clVars, bootVars, ioVars>>

\* What an FD opened on /proc/<child>/ns/mnt refers to.
NsOfChild(c) == [what |-> "ns", ns |-> c.ns, mounts |-> c.mounts]

\* The parent opens /proc/<child_pid>/ns/mnt.  It succeeds while the child
\* is alive: asleep, or panicked and not yet gone.
Open(t) ==
    /\ pc[t] = "open"
    /\ child[t].state \in {"sleeping", "panicked"}
    /\ LET fd == LowestFree(fd_table)
       IN  /\ fd_table' = [fd_table EXCEPT ![fd] = NsOfChild(child[t])]
           /\ call' = [call EXCEPT ![t].ns_file = fd]
    /\ pc' = [pc EXCEPT ![t] = "kill"]
    /\ UNCHANGED <<root_impl, ns_shared, ns_mounts, daemon, mnt_ns_fd, child, ret, ncalls,
                   forks, first_ok, nfailed, clVars, bootVars, ioVars>>

\* The open fails because the panicked child is gone: the error is returned
\* and the child is not reaped.
OpenFail(t) ==
    /\ pc[t] = "open"
    /\ child[t].state = "panicked"
    /\ Return(t, FALSE, 0, "open", FALSE)
    /\ UNCHANGED <<root_impl, ns_shared, ns_mounts, daemon, mnt_ns_fd, fd_table, ncalls, forks, nfailed, clVars, bootVars, ioVars>>

\* kill(child_pid, SIGKILL) and waitpid(child_pid).
Kill(t) ==
    /\ pc[t] = "kill"
    /\ child' = [child EXCEPT ![t].state = "reaped"]
    /\ pc' = [pc EXCEPT ![t] = "set"]
    /\ UNCHANGED <<root_impl, ns_shared, ns_mounts, daemon, mnt_ns_fd, fd_table, call, ret,
                   ncalls, forks, first_ok, nfailed, clVars, bootVars, ioVars>>

\* Set with a slot that takes the new FD whatever it holds, closing the old one.
Set_Overwrite(t) ==
    /\ pc[t] = "set"
    /\ mnt_ns_fd' = [mnt_ns_fd EXCEPT ![call[t].kind] = call[t].ns_file]
    /\ fd_table' = IF CellGet(call[t].kind) # 0
                   THEN [fd_table EXCEPT ![CellGet(call[t].kind)] = Closed]
                   ELSE fd_table
    /\ Return(t, TRUE, call[t].ns_file, "none", TRUE)
    /\ UNCHANGED <<root_impl, ns_shared, ns_mounts, daemon, ncalls, forks, nfailed, clVars, bootVars, ioVars>>

\* Set that returns Ok(raw_fd) also when the slot was set by another thread.
Set_IgnoreError(t) ==
    /\ pc[t] = "set"
    /\ IF CellGet(call[t].kind) = 0
       THEN /\ mnt_ns_fd' = [mnt_ns_fd EXCEPT ![call[t].kind] = call[t].ns_file]
            /\ fd_table' = fd_table
            /\ Return(t, TRUE, call[t].ns_file, "none", TRUE)
       ELSE /\ mnt_ns_fd' = mnt_ns_fd
            /\ fd_table' = [fd_table EXCEPT ![call[t].ns_file] = Closed]
            /\ Return(t, TRUE, call[t].ns_file, "none", FALSE)
    /\ UNCHANGED <<root_impl, ns_shared, ns_mounts, daemon, ncalls, forks, nfailed, clVars, bootVars, ioVars>>

\* ns_fd_cell.set(ns_file.into()): an empty slot takes the FD and the call
\* returns Ok(raw_fd); a slot set in the meantime keeps its FD, the new file
\* is dropped (closed) and the call returns the error.
Set(t) ==
    /\ pc[t] = "set"
    /\ IF CellGet(call[t].kind) = 0
       THEN /\ mnt_ns_fd' = [mnt_ns_fd EXCEPT ![call[t].kind] = call[t].ns_file]
            /\ fd_table' = fd_table
            /\ Return(t, TRUE, call[t].ns_file, "none", TRUE)
       ELSE /\ mnt_ns_fd' = mnt_ns_fd
            /\ fd_table' = [fd_table EXCEPT ![call[t].ns_file] = Closed]
            /\ Return(t, FALSE, 0, "set", FALSE)
    /\ UNCHANGED <<root_impl, ns_shared, ns_mounts, daemon, ncalls, forks, nfailed, clVars, bootVars, ioVars>>

Next ==
    \E t \in Threads :
        \/ \E kind \in Kinds : GetNamespaceFd(t, kind)
        \/ \E pid \in Pids, kind \in Kinds : SaveEnter(t, pid, kind)
        \/ Pipe(t)
        \/ PipeFail(t)
        \/ Fork(t)
        \/ ForkFail(t)
        \/ ChildSwitch(t)
        \/ ChildClean(t)
        \/ ChildUnshareFail(t)
        \/ ChildSignal(t)
        \/ Read(t)
        \/ Open(t)
        \/ OpenFail(t)
        \/ Kill(t)
        \/ Set(t)

Spec == Init /\ [][Next]_vars

SpecShared == InitShared /\ [][Next]_vars

\* ------------------------------------------------------------ startup
BootModes == {"daemon", "companion", "version", "root"}

\* The namespaces a process can be started in, and the working directories
\* it can have there.
BootProcs ==
    { [ns |-> n, cwd |-> d] : n \in {"boot", "init"}, d \in Dirs("boot") \cup {Unlinked} }
        \ { [ns |-> "init", cwd |-> <<"/mnt", "/scratch">>] }

InitBoot ==
    /\ b_pc = "start"
    /\ b_mode \in BootModes
    /\ b_proc \in BootProcs
    /\ b_before = b_proc
    /\ b_switch = "none"
    /\ b_root = "unset"
    /\ b_trace = <<>>
    /\ b_exit = -1
    /\ CapIdle
    /\ ClIdle
    /\ IoIdle

\* start: the match on the first argument.
Start ==
    /\ b_pc = "start"
    /\ b_pc' = CASE b_mode = "daemon" -> "entry"
                 [] b_mode = "root" -> "setup"
                 [] OTHER -> "exit"
    /\ b_trace' = IF b_mode \in {"companion", "version"}
                  THEN Append(b_trace, b_mode) ELSE b_trace
    /\ UNCHANGED <<b_mode, b_proc, b_before, b_switch, b_root, b_exit, clVars, capVars, ioVars>>

\* main_daemon_entry that goes on when switch_mount_namespace(1) has failed.
MainDaemonEntry_IgnoreError ==
    /\ b_pc = "entry"
    /\ LET r == SwitchMountNamespace(b_proc, 1)
       IN  /\ b_proc' = [ns |-> r.ns, cwd |-> r.cwd]
           /\ b_switch' = IF r.ok THEN "ok" ELSE "err"
    /\ b_pc' = "setup"
    /\ b_before' = b_proc
    /\ b_trace' = Append(b_trace, "switch")
    /\ UNCHANGED <<b_mode, b_root, b_exit, clVars, capVars, ioVars>>

\* main_daemon_entry: switch_mount_namespace(1)?
MainDaemonEntry ==
    /\ b_pc = "entry"
    /\ LET r == SwitchMountNamespace(b_proc, 1)
       IN  /\ b_proc' = [ns |-> r.ns, cwd |-> r.cwd]
           /\ b_switch' = IF r.ok THEN "ok" ELSE "err"
           /\ b_pc' = IF r.ok THEN "setup" ELSE "exit"
    /\ b_before' = b_proc
    /\ b_trace' = Append(b_trace, "switch")
    /\ UNCHANGED <<b_mode, b_root, b_exit, clVars, capVars, ioVars>>

\* root_impl::setup(), in main_daemon_entry and in the root mode of start.
RootImplSetup ==
    /\ b_pc = "setup"
    /\ b_root' \in RootImpls
    /\ b_trace' = Append(b_trace, "root")
    /\ b_pc' = IF b_mode = "daemon" THEN "main" ELSE "exit"
    /\ UNCHANGED <<b_mode, b_proc, b_before, b_switch, b_exit, clVars, capVars, ioVars>>

\* zygiskd::main(): it returns, with Ok or with an error.
ZygiskdMain ==
    /\ b_pc = "main"
    /\ \E ok \in BOOLEAN :
          b_trace' = Append(b_trace, IF ok THEN "daemon ok" ELSE "daemon err")
    /\ b_pc' = "exit"
    /\ UNCHANGED <<b_mode, b_proc, b_before, b_switch, b_root, b_exit, clVars, capVars, ioVars>>

\* start returns to main, and main returns (): the process exits with the
\* code of a main that has returned.
MainReturn ==
    /\ b_pc = "exit"
    /\ b_pc' = "done"
    /\ b_exit' = 0
    /\ UNCHANGED <<b_mode, b_proc, b_before, b_switch, b_root, b_trace, clVars, capVars, ioVars>>

NextBoot ==
    \/ Start
    \/ MainDaemonEntry
    \/ RootImplSetup
    \/ ZygiskdMain
    \/ MainReturn

SpecBoot == InitBoot /\ [][NextBoot]_vars

\* ------------------------------------------------------ framed stream I/O
\* Largest number of writes to one stream.
MaxFrames == 2

\* size_of::<usize>() on the 32-bit and the 64-bit targets.
PointerWidths == {4, 8}

\* to_be_bytes: the most significant byte first.
RECURSIVE ToNeBytes_BigEndian(_, _)
ToNeBytes_BigEndian(value, n) ==
    IF n = 0 THEN <<>>
    ELSE Append(ToNeBytes_BigEndian(value \div 256, n - 1), value % 256)

\* to_ne_bytes of an n-byte unsigned integer; the targets are little-endian.
RECURSIVE ToNeBytes(_, _)
ToNeBytes(value, n) ==
    IF n = 0 THEN <<>>
    ELSE <<value % 256>> \o ToNeBytes(value \div 256, n - 1)

\* The numbers that integers here can hold are those below 2^31: a buffer
\* whose fourth byte has the top bit set, or with a nonzero byte after the
\* fourth, holds a larger one.
Small(buf) ==
    \A i \in 1..Len(buf) : (i = 4 => buf[i] < 128) /\ (i > 4 => buf[i] = 0)

RECURSIVE LeValue(_)
LeValue(buf) == IF buf = <<>> THEN 0 ELSE buf[1] + 256 * LeValue(Tail(buf))

\* from_ne_bytes: the number, or -1 for a number of 2^31 or more (the bytes
\* that hold it are kept beside it).
FromNeBytes(buf) == IF Small(buf) THEN LeValue(buf) ELSE -1

\* A full-width usize above isize::MAX: the top bit of its last byte is set.
AboveIsizeMax(buf) == buf[Len(buf)] >= 128

\* read_exact(buf) of n bytes on a stream that holds wire and gets no more:
\* with fewer than n bytes it takes what there is and fails.
ReadExact(wire, n) ==
    IF Len(wire) >= n
    THEN [ok |-> TRUE, bytes |-> SubSeq(wire, 1, n), rest |-> SubSeq(wire, n + 1, Len(wire))]
    ELSE [ok |-> FALSE, bytes |-> wire, rest |-> <<>>]

\* A continuation byte of UTF-8.
Cont(x) == x >= 128 /\ x <= 191

\* String::from_utf8 accepts these byte sequences.
RECURSIVE ValidUtf8(_)
ValidUtf8(b) ==
    IF b = <<>> THEN TRUE
    ELSE LET c == b[1]
             n == Len(b)
         IN  IF c < 128 THEN ValidUtf8(Tail(b))
             ELSE IF c >= 194 /\ c <= 223
                  THEN n >= 2 /\ Cont(b[2]) /\ ValidUtf8(SubSeq(b, 3, n))
             ELSE IF c >= 224 /\ c <= 239
                  THEN /\ n >= 3 /\ Cont(b[2]) /\ Cont(b[3])
                       /\ (c = 224 => b[2] >= 160)
                       /\ (c = 237 => b[2] <= 159)
                       /\ ValidUtf8(SubSeq(b, 4, n))
             ELSE IF c >= 240 /\ c <= 244
                  THEN /\ n >= 4 /\ Cont(b[2]) /\ Cont(b[3]) /\ Cont(b[4])
                       /\ (c = 240 => b[2] >= 144)
                       /\ (c = 244 => b[2] <= 143)
                       /\ ValidUtf8(SubSeq(b, 5, n))
             ELSE FALSE

\* What a read returns: Ok(val) for a number, Ok(bytes) for a string, an
\* error, or no return at all (a panic, an abort); rest is what stays on the
\* stream.
Result(op, status, val, bytes, rest) ==
    [op |-> op, status |-> status, val |-> val, bytes |-> bytes, rest |-> rest]

\* A read of an n-byte unsigned integer.
ReadUnsigned(op, wire, n) ==
    LET r == ReadExact(wire, n)
    IN  IF r.ok THEN Result(op, "ok", FromNeBytes(r.bytes), r.bytes, r.rest)
        ELSE Result(op, "err", 0, <<>>, r.rest)

read_u8(wire) == ReadUnsigned("read_u8", wire, 1)

read_u32(wire) == ReadUnsigned("read_u32", wire, 4)

read_usize(wire, width) == ReadUnsigned("read_usize", wire, width)

\* read_string on a stream that holds wire and gets no more.  vec![0u8; len]
\* panics with a capacity overflow for a len above isize::MAX; for another
\* len of 2^31 or more the allocation either fails, which aborts the
\* process, or succeeds (alloc_ok), and then read_exact cannot be satisfied.
read_string(wire, width, alloc_ok) ==
    LET len == read_usize(wire, width)
    IN  IF len.status # "ok" THEN Result("read_string", "err", 0, <<>>, len.rest)
        ELSE IF AboveIsizeMax(len.bytes)
             THEN Result("read_string", "panic", 0, <<>>, len.rest)
        ELSE IF len.val = -1
             THEN IF alloc_ok THEN Result("read_string", "err", 0, <<>>, <<>>)
                  ELSE Result("read_string", "abort", 0, <<>>, len.rest)
        ELSE LET buf == ReadExact(len.rest, len.val)
             IN  IF ~buf.ok THEN Result("read_string", "err", 0, <<>>, buf.rest)
                 ELSE IF ~ValidUtf8(buf.bytes)
                      THEN Result("read_string", "err", 0, <<>>, buf.rest)
                 ELSE Result("read_string", "ok", Len(buf.bytes), buf.bytes, buf.rest)

\* The bytes each write puts on the stream.
write_u8(value) == <<value>>

write_u32(value) == ToNeBytes(value, 4)

write_usize(value, width) == ToNeBytes(value, width)

\* write_string that ends the string with a zero byte.
write_string_Terminated(value, width) == write_usize(Len(value), width) \o value \o <<0>>

write_string(value, width) == write_usize(Len(value), width) \o value

\* The values the writer writes.
U8Values == {255}

U32Values == {16909060, 2147483647}

UsizeValues == {258}

\* "", "e" with an acute accent, and "A" followed by U+0000.
StrValues == { <<>>, <<195, 169>>, <<65, 0>> }

\* What a peer that does not use the trait may put on the stream: a lone
\* lead byte of UTF-8, the length 2, a length of all ones, and (64-bit) the
\* length 2^32.
RawChunks(width) ==
    { <<195>>, ToNeBytes(2, width), [i \in 1..width |-> 255] }
        \cup (IF width = 8 THEN { <<0, 0, 0, 0, 1, 0, 0, 0>> } ELSE {})

InitFrame ==
    /\ f_width \in PointerWidths
    /\ f_wire = <<>>
    /\ f_closed = FALSE
    /\ f_written = <<>>
    /\ f_nread = 0
    /\ f_aligned = TRUE
    /\ f_used = 0
    /\ f_last = NoResult
    /\ f_reader = "running"
    /\ ClIdle
    /\ CapIdle
    /\ BootIdle
    /\ SendIdle
    /\ PollIdle
    /\ DispIdle

\* A write of the bytes that encode a value: write_all puts all of them on
\* the stream, or fails when the reading end is gone.
Write(kind, val, str, bytes) ==
    /\ Len(f_written) < MaxFrames
    /\ LET ok == f_reader = "running"
       IN  /\ f_wire' = IF ok THEN f_wire \o bytes ELSE f_wire
           /\ f_written' = Append(f_written, [kind |-> kind, val |-> val, str |-> str,
                                              nbytes |-> IF ok THEN Len(bytes) ELSE 0,
                                              ok |-> ok])
    /\ UNCHANGED <<f_width, f_closed, f_nread, f_aligned, f_used, f_last, f_reader, oldVars, notFrameVars>>

WriteU8 ==
    /\ ~f_closed
    /\ \E v \in U8Values : Write("u8", v, <<>>, write_u8(v))

WriteU32 ==
    /\ ~f_closed
    /\ \E v \in U32Values : Write("u32", v, <<>>, write_u32(v))

WriteUsize ==
    /\ ~f_closed
    /\ \E v \in UsizeValues : Write("usize", v, <<>>, write_usize(v, f_width))

WriteString ==
    /\ ~f_closed
    /\ \E v \in StrValues : Write("string", Len(v), v, write_string(v, f_width))

\* The peer writes bytes of its own making.
WriteRaw ==
    /\ ~f_closed
    /\ \E c \in RawChunks(f_width) : Write("raw", 0, c, c)

\* The writer closes its end (or the process holding it exits).
CloseWriter ==
    /\ ~f_closed
    /\ f_closed' = TRUE
    /\ UNCHANGED <<f_width, f_wire, f_written, f_nread, f_aligned, f_used, f_last,
                   f_reader, oldVars, notFrameVars>>

\* The reader drops its end.
CloseReader ==
    /\ f_reader = "running"
    /\ f_reader' = "closed"
    /\ UNCHANGED <<f_width, f_wire, f_closed, f_written, f_nread, f_aligned, f_used,
                   f_last, oldVars, notFrameVars>>

\* read_exact of n bytes returns: the bytes are there, or the stream has ended.
Ready(n) == Len(f_wire) >= n \/ f_closed

\* The bytes a read needs to return a value, or one more than the stream
\* holds when the string announced is longer than what the stream holds.
Needed(kind, wire, width) ==
    CASE kind = "u8" -> 1
      [] kind = "u32" -> 4
      [] kind = "usize" -> width
      [] kind = "string" ->
            IF Len(wire) < width THEN width
            ELSE LET len == FromNeBytes(SubSeq(wire, 1, width))
                 IN  IF len = -1 \/ len > Len(wire) - width
                     THEN Len(wire) + 1 ELSE width + len

\* The string announced is all there and is not UTF-8.
BadUtf8(kind, wire, width) ==
    /\ kind = "string"
    /\ Len(wire) >= Needed(kind, wire, width)
    /\ ~ValidUtf8(SubSeq(wire, width + 1, Needed(kind, wire, width)))

\* A read has returned r.
Read_(kind, r) ==
    /\ f_reader = "running"
    /\ f_nread < MaxFrames
    /\ f_wire' = r.rest
    /\ f_used' = f_used + (Len(f_wire) - Len(r.rest))
    /\ f_nread' = f_nread + 1
    /\ f_aligned' = (/\ f_aligned
                     /\ f_nread < Len(f_written)
                     /\ f_written[f_nread + 1].kind = kind)
    /\ f_last' = r @@ [eof |-> f_closed /\ Len(f_wire) < Needed(kind, f_wire, f_width),
                        bad_utf8 |-> BadUtf8(kind, f_wire, f_width)]
    /\ f_reader' = CASE r.status = "panic" -> "panicked"
                     [] r.status = "abort" -> "aborted"
                     [] OTHER -> f_reader
    /\ UNCHANGED <<f_width, f_closed, f_written, oldVars, notFrameVars>>

ReadU8 == Ready(1) /\ Read_("u8", read_u8(f_wire))

ReadU32 == Ready(4) /\ Read_("u32", read_u32(f_wire))

ReadUsize == Ready(f_width) /\ Read_("usize", read_usize(f_wire, f_width))

\* read_string has returned (or has panicked, or the process has aborted):
\* on the length alone when it cannot be allocated, else when the bytes
\* announced are there or the stream has ended.
ReadString ==
    /\ Ready(f_width)
    /\ \E alloc_ok \in BOOLEAN :
          LET r == read_string(f_wire, f_width, alloc_ok)
              len == read_usize(f_wire, f_width)
          IN  /\ \/ r.status \in {"panic", "abort"}
                 \/ f_closed
                 \/ len.status = "ok" /\ len.val >= 0 /\ Len(len.rest) >= len.val
              /\ (len.status = "ok" /\ len.val >= 0) => alloc_ok
              /\ Read_("string", r)

NextFrame ==
    \/ WriteU8
    \/ WriteU32
    \/ WriteUsize
    \/ WriteString
    \/ WriteRaw
    \/ CloseWriter
    \/ CloseReader
    \/ ReadU8
    \/ ReadU32
    \/ ReadUsize
    \/ ReadString

SpecFrame == InitFrame /\ [][NextFrame]_vars

\* ------------------------------------------------- unix_datagram_sendto
ZygoteContext == "u:r:zygote:s0"

\* The contexts the daemon may run in.
Contexts == {"u:r:su:s0", "u:r:magisk:s0", ZygoteContext}

\* The paths a datagram is sent to: one a socket is bound at, one nothing is
\* bound at, and one that is too long for a sockaddr_un.
SendPaths == {"bound", "unbound", "too long"}

InitSend ==
    /\ s_current \in Contexts
    /\ s_sockcreate = ""
    /\ s_pc = "idle"
    /\ s_path = "none"
    /\ s_socket = "none"
    /\ s_made_with = ""
    /\ s_ret = [status |-> "none", fail |-> "none"]
    /\ s_ncalls = 0
    /\ ClIdle
    /\ CapIdle
    /\ BootIdle
    /\ FrameIdle
    /\ PollIdle
    /\ DispIdle

\* The call returns: the socket, if any, is dropped.
SendReturn(status, fail) ==
    /\ s_pc' = "idle"
    /\ s_socket' = "none"
    /\ s_ret' = [status |-> status, fail |-> fail]

\* unix_datagram_sendto(path, buf) is called.
SendCall ==
    /\ s_pc = "idle"
    /\ s_ncalls < MaxCalls
    /\ s_ncalls' = s_ncalls + 1
    /\ s_path' \in SendPaths
    /\ s_pc' = "set"
    /\ s_ret' = [status |-> "none", fail |-> "none"]
    /\ s_made_with' = ""
    /\ UNCHANGED <<s_current, s_sockcreate, s_socket, oldVars, notSendVars>>

\* set_socket_create_context(&get_current_attr()?)?: the read of
\* attr/current or the write of attr/sockcreate may fail.
SendSetContext ==
    /\ s_pc = "set"
    /\ \E outcome \in {"ok", "get_current_attr", "set_socket_create_context"} :
          IF outcome = "ok"
          THEN /\ s_sockcreate' = s_current
               /\ s_pc' = "addr"
               /\ UNCHANGED <<s_socket, s_ret>>
          ELSE /\ SendReturn("err", outcome)
               /\ UNCHANGED s_sockcreate
    /\ UNCHANGED <<s_current, s_path, s_made_with, s_ncalls, oldVars, notSendVars>>

\* SocketAddrUnix::new(path.as_bytes())?
SendAddr ==
    /\ s_pc = "addr"
    /\ IF s_path = "too long"
       THEN SendReturn("err", "addr")
       ELSE s_pc' = "socket" /\ UNCHANGED <<s_socket, s_ret>>
    /\ UNCHANGED <<s_current, s_sockcreate, s_path, s_made_with, s_ncalls, oldVars,
                   notSendVars>>

\* socket(UNIX, DGRAM)?: the socket gets the context in attr/sockcreate.
SendSocket ==
    /\ s_pc = "socket"
    /\ \E ok \in BOOLEAN :
          IF ok
          THEN /\ s_socket' = "open"
               /\ s_made_with' = s_sockcreate
               /\ s_pc' = "connect"
               /\ UNCHANGED s_ret
          ELSE /\ SendReturn("err", "socket")
               /\ UNCHANGED s_made_with
    /\ UNCHANGED <<s_current, s_sockcreate, s_path, s_ncalls, oldVars, notSendVars>>

\* connect(&socket, &addr)?: it fails when nothing is bound at the path.
SendConnect ==
    /\ s_pc = "connect"
    /\ IF s_path = "bound"
       THEN s_socket' = "connected" /\ s_pc' = "sendto" /\ UNCHANGED s_ret
       ELSE SendReturn("err", "connect")
    /\ UNCHANGED <<s_current, s_sockcreate, s_path, s_made_with, s_ncalls, oldVars,
                   notSendVars>>

\* sendto(socket, buf, ..)?: it fails when the receiver has gone or its
\* queue is full; the socket is dropped either way.
SendSendto ==
    /\ s_pc = "sendto"
    /\ \E ok \in BOOLEAN :
          IF ok
          THEN s_socket' = "none" /\ s_pc' = "restore" /\ UNCHANGED s_ret
          ELSE SendReturn("err", "sendto")
    /\ UNCHANGED <<s_current, s_sockcreate, s_path, s_made_with, s_ncalls, oldVars,
                   notSendVars>>

\* set_socket_create_context("u:r:zygote:s0")?; Ok(())
SendRestore ==
    /\ s_pc = "restore"
    /\ \E ok \in BOOLEAN :
          IF ok
          THEN s_sockcreate' = ZygoteContext /\ SendReturn("ok", "none")
          ELSE SendReturn("err", "restore") /\ UNCHANGED s_sockcreate
    /\ UNCHANGED <<s_current, s_path, s_made_with, s_ncalls, oldVars, notSendVars>>

NextSend ==
    \/ SendCall
    \/ SendSetContext
    \/ SendAddr
    \/ SendSocket
    \/ SendConnect
    \/ SendSendto
    \/ SendRestore

SpecSend == InitSend /\ [][NextSend]_vars

\* ------------------------------------------------------ is_socket_alive
\* Largest number of unread messages on the socket.
MaxPending == 2

\* The events poll reports for a descriptor asked about POLLIN: POLLNVAL
\* for a number that is no open descriptor; else POLLERR for a pending
\* error, POLLHUP once the peer has closed, and POLLIN for data to read or an
\* end of stream to read (the peer has closed or has shut down its writing).
Poll(sock) ==
    IF ~sock.fd_open THEN {"POLLNVAL"}
    ELSE (IF sock.err THEN {"POLLERR"} ELSE {})
         \cup (IF sock.peer = "closed" THEN {"POLLHUP"} ELSE {})
         \cup (IF sock.pending > 0 \/ sock.peer # "open" THEN {"POLLIN"} ELSE {})

\* is_socket_alive that takes any event for death.
IsSocketAlive_NoEvent(r, revents) ==
    IF r < 0 THEN FALSE ELSE revents = {}

\* is_socket_alive that does not take a hangup for death.
IsSocketAlive_IgnoreHup(r, revents) ==
    IF r < 0 THEN FALSE ELSE revents \ {"POLLIN", "POLLHUP"} = {}

\* is_socket_alive, from what poll returned and reported.
IsSocketAlive(r, revents) ==
    IF r < 0 THEN FALSE ELSE revents \ {"POLLIN"} = {}

InitPoll ==
    /\ k_sock = FreshSocket
    /\ k_last = NoCheck
    /\ k_nchecks = 0
    /\ ClIdle
    /\ CapIdle
    /\ BootIdle
    /\ FrameIdle
    /\ SendIdle
    /\ DispIdle

\* The peer writes a message.
PeerSend ==
    /\ k_sock.fd_open /\ k_sock.peer = "open"
    /\ k_sock.pending < MaxPending
    /\ k_sock' = [k_sock EXCEPT !.pending = @ + 1]
    /\ UNCHANGED <<k_last, k_nchecks, oldVars, notPollVars>>

\* The holder of the stream reads a message.
LocalRead ==
    /\ k_sock.fd_open /\ k_sock.pending > 0
    /\ k_sock' = [k_sock EXCEPT !.pending = @ - 1]
    /\ UNCHANGED <<k_last, k_nchecks, oldVars, notPollVars>>

\* The peer shuts down its writing and keeps the socket.
PeerShutdownWrite ==
    /\ k_sock.fd_open /\ k_sock.peer = "open"
    /\ k_sock' = [k_sock EXCEPT !.peer = "shut_wr"]
    /\ UNCHANGED <<k_last, k_nchecks, oldVars, notPollVars>>

\* The peer closes its socket, or exits; when it had not read all that was
\* sent to it, this socket gets a connection-reset error.
PeerClose ==
    /\ k_sock.fd_open /\ k_sock.peer # "closed"
    /\ \E reset \in BOOLEAN :
          k_sock' = [k_sock EXCEPT !.peer = "closed", !.err = reset]
    /\ UNCHANGED <<k_last, k_nchecks, oldVars, notPollVars>>

\* The descriptor number is closed through a raw copy of it.
RawClose ==
    /\ k_sock.fd_open
    /\ k_sock' = [k_sock EXCEPT !.fd_open = FALSE]
    /\ UNCHANGED <<k_last, k_nchecks, oldVars, notPollVars>>

\* is_socket_alive(stream): poll fails, or reports on the one descriptor.
CheckAlive ==
    /\ k_nchecks < MaxCalls
    /\ k_nchecks' = k_nchecks + 1
    /\ \E failed \in BOOLEAN :
          LET r == IF failed THEN -1 ELSE IF Poll(k_sock) = {} THEN 0 ELSE 1
              revents == IF failed THEN {} ELSE Poll(k_sock)
          IN  k_last' = [ret |-> r, revents |-> revents,
                         alive |-> IsSocketAlive(r, revents), sock |-> k_sock]
    /\ UNCHANGED <<k_sock, oldVars, notPollVars>>

NextPoll ==
    \/ PeerSend
    \/ LocalRead
    \/ PeerShutdownWrite
    \/ PeerClose
    \/ RawClose
    \/ CheckAlive

SpecPoll == InitPoll /\ [][NextPoll]_vars

\* ---------------------------------------------------- request dispatcher
\* Connections accepted in one run.
MaxConns == 3

\* The variants of DaemonSocketAction, in the order of their discriminants.
DaemonSocketAction ==
    <<"PingHeartbeat", "GetProcessFlags", "CacheMountNamespace",
      "UpdateMountNamespace", "ReadModules", "RequestCompanionSocket",
      "GetModuleDir", "ZygoteRestart", "SystemServerStarted">>

\* A conversion that exchanges the last two discriminants.
TryFromPrimitive_LastTwoSwapped(b) ==
    IF b = 7 THEN "SystemServerStarted"
    ELSE IF b = 8 THEN "ZygoteRestart"
    ELSE IF b \in 0..6 THEN DaemonSocketAction[b + 1] ELSE "Err"

\* A conversion that wraps the byte around the number of variants.
TryFromPrimitive_Wrapped(b) ==
    DaemonSocketAction[(b % Len(DaemonSocketAction)) + 1]

\* DaemonSocketAction::try_from(u8): the variant of that discriminant, or
\* an error for a byte that is no discriminant.
TryFromPrimitive(b) ==
    IF b \in 0..(Len(DaemonSocketAction) - 1) THEN DaemonSocketAction[b + 1] ELSE "Err"

\* 1 << n.
Shl1(n) == 2 ^ n

\* Whether bit n of a non-negative value is set.
HasBit(value, n) == (value \div Shl1(n)) % 2 = 1

\* a | b of two flag values.
BitOr(a, b) ==
    LET bit(n) == IF HasBit(a, n) \/ HasBit(b, n) THEN Shl1(n) ELSE 0
        RECURSIVE sum(_)
        sum(n) == IF n < 0 THEN 0 ELSE bit(n) + sum(n - 1)
    IN  sum(30)

PROCESS_GRANTED_ROOT == Shl1(0)

PROCESS_ON_DENYLIST == Shl1(1)

PROCESS_IS_MANAGER == Shl1(27)

\* The KernelSU flag on the bit of APatch.
PROCESS_ROOT_IS_KSU_Bit28 == Shl1(28)

PROCESS_ROOT_IS_APATCH == Shl1(28)

PROCESS_ROOT_IS_KSU == Shl1(29)

PROCESS_ROOT_IS_MAGISK == Shl1(30)

\* The flags GetProcessFlags builds: the ROOT_IS_* bit of the RootImpl, and
\* the bits of the three oracles asked about the uid.
BuildProcessFlags(impl, granted, denied, manager) ==
    LET root == CASE impl = "APatch" -> PROCESS_ROOT_IS_APATCH
                  [] impl = "KernelSU" -> PROCESS_ROOT_IS_KSU
                  [] impl = "Magisk" -> PROCESS_ROOT_IS_MAGISK
                  [] OTHER -> 0
        f1 == IF granted THEN BitOr(root, PROCESS_GRANTED_ROOT) ELSE root
        f2 == IF denied THEN BitOr(f1, PROCESS_ON_DENYLIST) ELSE f1
    IN  IF manager THEN BitOr(f2, PROCESS_IS_MANAGER) ELSE f2

\* The action bytes clients send: codes of the enum, and two that are none.
ActionBytes == {0, 1, 5, 7, 8, 9, 255}

\* The codes whose handlers leave the companion registry alone.
OtherActions ==
    {"PingHeartbeat", "CacheMountNamespace", "UpdateMountNamespace",
     "ReadModules", "GetModuleDir", "SystemServerStarted"}

\* is_socket_alive on a cached companion socket.
CompanionAlive(slot) ==
    LET sock == [FreshSocket EXCEPT !.peer = IF slot.dead THEN "closed" ELSE "open"]
        revents == Poll(sock)
    IN  IsSocketAlive(IF revents = {} THEN 0 ELSE 1, revents)

InitDispatch ==
    /\ d_root \in RootImpls
    /\ d_conn = [h \in Handlers |-> NoConn]
    /\ d_slot = [m \in Modules |-> NoSock]
    /\ d_lock = [m \in Modules |-> 0]
    /\ d_spawned = 0
    /\ d_begun = 0
    /\ d_done = 0
    /\ d_accepted = 0
    /\ d_last = NoLast
    /\ d_rejected = FALSE
    /\ d_dropped = {}
    /\ ClIdle
    /\ CapIdle
    /\ BootIdle
    /\ FrameIdle
    /\ SendIdle
    /\ PollIdle

\* The handler closes its connection.
Close(h, last) ==
    /\ d_conn' = [d_conn EXCEPT ![h] = NoConn]
    /\ d_last' = last @@ [NoLast EXCEPT !.epoch = d_conn[h].epoch,
                                        !.rej = d_conn[h].rej]

Closing(h, byte, ran, status) ==
    Close(h, [byte |-> byte, ran |-> ran, status |-> status])

\* The listener accepts a connection and hands it to a thread of its own.
Accept(h) ==
    /\ d_conn[h].pc = "free"
    /\ d_accepted < MaxConns
    /\ d_accepted' = d_accepted + 1
    /\ d_conn' = [d_conn EXCEPT ![h] = [NoConn EXCEPT !.pc = "accepted", !.epoch = d_done,
                                                      !.rej = d_rejected]]
    /\ UNCHANGED <<d_root, d_slot, d_lock, d_spawned, d_begun, d_done, d_last,
                   d_rejected, d_dropped,
                   oldVars, notDispVars>>

\* The action byte is no action: the connection is closed.
Malformed(h) ==
    /\ d_conn[h].pc = "accepted"
    /\ \E b \in ActionBytes :
          /\ TryFromPrimitive(b) = "Err"
          /\ Closing(h, b, "none", "closed")
    /\ d_rejected' = TRUE
    /\ UNCHANGED <<d_root, d_slot, d_lock, d_spawned, d_begun, d_done, d_accepted,
                   d_dropped,
                   oldVars, notDispVars>>

\* An action that leaves the companion registry alone.
OtherAction(h) ==
    /\ d_conn[h].pc = "accepted"
    /\ \E b \in ActionBytes :
          /\ TryFromPrimitive(b) \in OtherActions
          /\ Closing(h, b, TryFromPrimitive(b), "ok")
    /\ UNCHANGED <<d_root, d_slot, d_lock, d_spawned, d_begun, d_done, d_accepted,
                   d_rejected, d_dropped,
                   oldVars, notDispVars>>

\* GetProcessFlags: the flags of a uid, from the RootImpl and the oracles.
GetProcessFlags(h) ==
    /\ d_conn[h].pc = "accepted"
    /\ \E b \in ActionBytes, granted, denied, manager \in BOOLEAN :
          /\ TryFromPrimitive(b) = "GetProcessFlags"
          /\ Close(h, [byte |-> b, ran |-> "GetProcessFlags", status |-> "ok",
                       flags |-> BuildProcessFlags(d_root, granted, denied, manager)])
    /\ UNCHANGED <<d_root, d_slot, d_lock, d_spawned, d_begun, d_done, d_accepted,
                   d_rejected, d_dropped,
                   oldVars, notDispVars>>

\* RequestCompanionSocket, obtain_companion steps 1 and 2: with the mutex of
\* the module, return the cached socket when it is alive, clear it when it is
\* dead.
RequestCompanionSocket(h) ==
    /\ d_conn[h].pc = "accepted"
    /\ \E b \in ActionBytes, m \in Modules :
          /\ TryFromPrimitive(b) = "RequestCompanionSocket"
          /\ d_lock[m] = 0
          /\ IF d_slot[m] # NoSock /\ CompanionAlive(d_slot[m])
             THEN /\ Close(h, [byte |-> b, ran |-> "RequestCompanionSocket",
                               status |-> "ok", mod |-> m, sock |-> d_slot[m],
                               reused |-> TRUE])
                  /\ UNCHANGED <<d_slot, d_lock>>
             ELSE /\ d_slot' = [d_slot EXCEPT ![m] = NoSock]
                  /\ d_lock' = [d_lock EXCEPT ![m] = h]
                  /\ d_conn' = [d_conn EXCEPT ![h].pc = "locked", ![h].byte = b,
                                               ![h].mod = m,
                                               ![h].found_dead = d_slot[m] # NoSock]
                  /\ UNCHANGED d_last
    /\ UNCHANGED <<d_root, d_spawned, d_begun, d_done, d_accepted,
                   d_rejected, d_dropped,
                   oldVars, notDispVars>>

\* obtain_companion step 3: a socket pair, and a companion forked with one
\* end of it.
SpawnCompanion(h) ==
    /\ d_conn[h].pc = "locked"
    /\ d_spawned' = d_spawned + 1
    /\ d_conn' = [d_conn EXCEPT ![h].pc = "handshake", ![h].sock = d_spawned + 1]
    /\ UNCHANGED <<d_root, d_slot, d_lock, d_begun, d_done, d_accepted, d_last,
                   d_rejected, d_dropped,
                   oldVars, notDispVars>>

\* obtain_companion steps 4 and 5: the companion answers ready and its
\* socket is cached, or declines, or the handshake fails; the mutex is
\* released.
Handshake(h) ==
    /\ d_conn[h].pc = "handshake"
    /\ LET m == d_conn[h].mod
           sock == [id |-> d_conn[h].sock, born |-> d_begun, dead |-> FALSE]
       IN  /\ d_lock' = [d_lock EXCEPT ![m] = 0]
           /\ \E answer \in {"ready", "declined", "io error"} :
                 IF answer = "ready"
                 THEN /\ d_slot' = [d_slot EXCEPT ![m] = sock]
                      /\ Close(h, [byte |-> d_conn[h].byte,
                                   ran |-> "RequestCompanionSocket",
                                   status |-> "ok", mod |-> m, sock |-> sock])
                 ELSE /\ d_slot' = [d_slot EXCEPT ![m] = NoSock]
                      /\ Close(h, [byte |-> d_conn[h].byte,
                                   ran |-> "RequestCompanionSocket",
                                   status |-> answer, mod |-> m])
    /\ UNCHANGED <<d_root, d_spawned, d_begun, d_done, d_accepted,
                   d_rejected, d_dropped,
                   oldVars, notDispVars>>

\* ZygoteRestart begins.
ZygoteRestart(h) ==
    /\ d_conn[h].pc = "accepted"
    /\ \E b \in ActionBytes :
          /\ TryFromPrimitive(b) = "ZygoteRestart"
          /\ d_conn' = [d_conn EXCEPT ![h].pc = "restart", ![h].byte = b, ![h].mod = 1]
    /\ d_begun' = d_begun + 1
    /\ UNCHANGED <<d_root, d_slot, d_lock, d_spawned, d_done, d_accepted, d_last,
                   d_rejected, d_dropped,
                   oldVars, notDispVars>>

\* ZygoteRestart takes the mutex of the next module and drops its cached
\* socket; after the last module the connection is closed.
DropCompanion(h) ==
    /\ d_conn[h].pc = "restart"
    /\ LET m == d_conn[h].mod
       IN  /\ d_lock[m] = 0
           /\ d_slot' = [d_slot EXCEPT ![m] = NoSock]
           /\ d_dropped' = IF d_slot[m] # NoSock THEN d_dropped \cup {m} ELSE d_dropped
           /\ IF m < NumModules
              THEN /\ d_conn' = [d_conn EXCEPT ![h].mod = m + 1]
                   /\ UNCHANGED <<d_done, d_last>>
              ELSE /\ d_done' = d_done + 1
                   /\ Closing(h, d_conn[h].byte, "ZygoteRestart", "ok")
    /\ UNCHANGED <<d_root, d_lock, d_spawned, d_begun, d_accepted,
                   d_rejected,
                   oldVars, notDispVars>>

\* The companion of a cached socket exits.
CompanionExit(m) ==
    /\ d_slot[m] # NoSock /\ ~d_slot[m].dead
    /\ d_slot' = [d_slot EXCEPT ![m].dead = TRUE]
    /\ UNCHANGED <<d_root, d_conn, d_lock, d_spawned, d_begun, d_done, d_accepted,
                   d_last, d_rejected, d_dropped,
                   oldVars, notDispVars>>

NextDispatch ==
    \/ \E h \in Handlers : Accept(h)
    \/ \E h \in Handlers : Malformed(h)
    \/ \E h \in Handlers : OtherAction(h)
    \/ \E h \in Handlers : GetProcessFlags(h)
    \/ \E h \in Handlers : RequestCompanionSocket(h)
    \/ \E h \in Handlers : SpawnCompanion(h)
    \/ \E h \in Handlers : Handshake(h)
    \/ \E h \in Handlers : ZygoteRestart(h)
    \/ \E h \in Handlers : DropCompanion(h)
    \/ \E m \in Modules : CompanionExit(m)

SpecDispatch == InitDispatch /\ [][NextDispatch]_vars

\* ---------------------------------------------------------------- claims
\* The mount ids the last run called umount2 for.
AttemptedIds == { cl_log[i].mnt_id : i \in 1..Len(cl_log) }

\* The marker of an active root implementation, as the specification lists them.
MarkerOf(impl) ==
    CASE impl = "APatch" -> <<"APatch">>
      [] impl = "KernelSU" -> <<"KSU">>
      [] impl = "Magisk" -> <<"magisk">>

HasMarker(impl) == impl \in {"APatch", "KernelSU", "Magisk"}

\* The first three conditions of the selection, as the specification words them.
SelectedByPathOrMarker(info, impl) ==
    \/ StartsWith(info.root, <<"/adb", "/modules">>)
    \/ StartsWith(info.mount_point, <<"/data", "/adb", "/modules">>)
    \/ (HasMarker(impl) /\ info.mount_source = {MarkerOf(impl)})

\* The fourth condition as C7 words it: the source of the mount at /data/adb/modules.
SelectedByModulesSource(info, t, impl) ==
    /\ impl = "KernelSU"
    /\ \E j \in 1..Len(t) :
          /\ t[j].mount_point = <<"/data", "/adb", "/modules">>
          /\ t[j].mount_source # {}
          /\ info.mount_source = t[j].mount_source

\* The fourth condition as the code has it: the first mount at /data/adb/modules,
\* and only when its source is a loop device.
SelectedByLoopSource(info, t, impl) ==
    /\ impl = "KernelSU"
    /\ \E j \in 1..Len(t) :
          /\ t[j].mount_point = <<"/data", "/adb", "/modules">>
          /\ \A k \in 1..(j - 1) : t[k].mount_point # <<"/data", "/adb", "/modules">>
          /\ \E src \in t[j].mount_source :
                /\ StartsWith(src, <<"/dev/block/", "loop">>)
                /\ info.mount_source = {src}

\* C7 as stated: an entry is an unmount target if and only if its root begins
\* with /adb/modules, or its mount point begins with /data/adb/modules, or its
\* source is the marker of the active RootImpl, or RootImpl is KernelSU and its
\* source equals the source of the mount at /data/adb/modules.
C7_SelectionAsStated ==
    cl_runs >= 1 =>
        \A i \in 1..Len(cl_before) :
            (cl_before[i].mnt_id \in AttemptedIds)
                <=> \/ SelectedByPathOrMarker(cl_before[i], cl_impl)
                    \/ SelectedByModulesSource(cl_before[i], cl_before, cl_impl)

\* C7 amended: as C7, with the fourth condition being that RootImpl is KernelSU,
\* the first entry mounted at exactly /data/adb/modules has a source beginning
\* with /dev/block/loop, and the entry's source equals that source.
C7_Selection ==
    cl_runs >= 1 =>
        \A i \in 1..Len(cl_before) :
            (cl_before[i].mnt_id \in AttemptedIds)
                <=> \/ SelectedByPathOrMarker(cl_before[i], cl_impl)
                    \/ SelectedByLoopSource(cl_before[i], cl_before, cl_impl)

\* A run under KernelSU selected an entry for its loop-device source alone.
C7_Witness ==
    /\ cl_runs = 1
    /\ cl_impl = "KernelSU"
    /\ \E i \in 1..Len(cl_before) :
          /\ cl_before[i].mnt_id \in AttemptedIds
          /\ ~SelectedByPathOrMarker(cl_before[i], cl_impl)

C10_Idempotent == cl_runs >= 2 => cl_mounts = cl_first

\* C1: every Ok of save_mount_namespace for a kind carries the FD of the first
\* Ok for that kind, whatever pid was passed, and get_namespace_fd called after
\* that first Ok returns the same FD.
C1_SameFd ==
    \A t \in Threads :
        /\ (ret[t].op = "save" /\ ret[t].ok) =>
              /\ ret[t].fd # 0
              /\ ret[t].fd = first_ok[ret[t].kind]
        /\ (ret[t].op = "get" /\ ret[t].after_ok) =>
              ret[t].fd = first_ok[ret[t].kind]

\* A capture returned Ok and a later call with another pid returned Ok too.
C1_Witness ==
    \E t, u \in Threads :
        /\ ret[t].op = "save" /\ ret[t].ok /\ ret[t].stored
        /\ ret[u].op = "save" /\ ret[u].ok /\ ~ret[u].stored
        /\ ret[u].kind = ret[t].kind
        /\ ret[u].pid # ret[t].pid

\* C2 as stated: for each slot there is one fork of a capture child, and no
\* more, as long as no system call of a capture has failed.
C2_OneForkPerSlot == nfailed = 0 => \A k \in Kinds : forks[k] <= 1

\* C3: a slot that holds an FD holds it after every step, and the FD goes on
\* referring to the namespace it was opened on.
C3_WriteOnce ==
    [][\A k \in Kinds :
          mnt_ns_fd[k] # 0 =>
              /\ mnt_ns_fd'[k] = mnt_ns_fd[k]
              /\ fd_table'[mnt_ns_fd[k]] = fd_table[mnt_ns_fd[k]]]_vars

\* A thread came to set a slot that was set already, and a thread read a set slot.
C3_Witness ==
    \E t \in Threads :
        /\ ret[t].fail = "set"
        /\ mnt_ns_fd[ret[t].kind] # 0

\* C4 as stated: a call in which pipe, fork or the child's setns failed has
\* returned an error and has not set the slot.
C4_FailureLeavesSlotEmpty ==
    \A t \in Threads :
        (ret[t].op = "save"
            /\ (ret[t].fail \in {"pipe", "fork"} \/ ret[t].child.fail = "setns"))
        => (~ret[t].ok /\ ~ret[t].stored)

\* C5 as stated: the parent opens the namespace file only after the child has
\* written the readiness byte, and kills the child only after the file is open.
C5_EventOrder ==
    \A t \in Threads :
        /\ call[t].ns_file # 0 => child[t].ready
        /\ child[t].state = "reaped" => call[t].ns_file # 0

\* The entries of the table clean_mount_namespace started from that it has
\* to unmount, as the specification selects them.
CleanTargetIds(t, impl) ==
    { t[i].mnt_id : i \in { j \in 1..Len(t) :
                              \/ SelectedByPathOrMarker(t[j], impl)
                              \/ SelectedByLoopSource(t[j], t, impl) } }

FailedUnmount(log) == \E i \in 1..Len(log) : ~log[i].ok

\* C9: when an umount2 of a Clean capture has failed, every target has still
\* been tried exactly once, and, no other system call of the call having
\* failed, the child has written the readiness byte and the Clean slot holds
\* an FD; when this call set the slot, the FD is of the child's private
\* namespace as the cleaning left it.
C9_UnmountFailureGoesOn ==
    \A t \in Threads :
        /\ ((child[t].state = "cleaned" \/ child[t].ready)
               /\ call[t].kind = "Clean") =>
              /\ Len(child[t].log) = Cardinality(CleanTargetIds(ns_mounts["init"], root_impl))
              /\ { child[t].log[i].mnt_id : i \in 1..Len(child[t].log) }
                    = CleanTargetIds(ns_mounts["init"], root_impl)
        /\ (ret[t].op = "save" /\ ret[t].kind = "Clean"
               /\ FailedUnmount(ret[t].child.log) /\ ret[t].child.fail = "none") =>
              /\ ret[t].child.ready
              /\ ret[t].nread = 1
              /\ ret[t].fail \in {"none", "set"}
              /\ mnt_ns_fd["Clean"] # 0
              /\ fd_table[mnt_ns_fd["Clean"]].what = "ns"
              /\ ret[t].stored =>
                    /\ fd_table[mnt_ns_fd["Clean"]].ns = "private"
                    /\ fd_table[mnt_ns_fd["Clean"]].mounts = ret[t].child.mounts

\* A Clean capture whose cleaning had a failed umount2 returned Ok, its FD in the slot.
C9_Witness ==
    \E t \in Threads :
        /\ ret[t].op = "save" /\ ret[t].kind = "Clean"
        /\ ret[t].ok /\ ret[t].stored
        /\ FailedUnmount(ret[t].child.log)
        /\ \E i \in 1..Len(ret[t].child.log) : ret[t].child.log[i].ok
        /\ mnt_ns_fd["Clean"] = ret[t].fd

\* C6: when switch_mount_namespace has returned Ok, the working directory of
\* the caller is the path it was before the call.
C6_CwdRestored ==
    b_switch = "ok" => b_proc.cwd = b_before.cwd

\* The call returned Ok, took the process into another namespace, and the
\* working directory before it was not the root that setns leaves.
C6_Witness ==
    /\ b_switch = "ok"
    /\ b_before.ns = "boot" /\ b_proc.ns = "init"
    /\ b_before.cwd # Root_
    /\ b_proc.cwd = b_before.cwd

\* The bytes that the first n writes put on the stream.
RECURSIVE BytesWritten(_)
BytesWritten(n) == IF n = 0 THEN 0 ELSE f_written[n].nbytes + BytesWritten(n - 1)

\* C11: while the reads are those matching the writes, each read returns the
\* value that was written at its place, the reads have taken exactly the
\* bytes of the writes they match, and a string took the width of a usize
\* and its own bytes, no more.
C11_RoundTrip ==
    (f_aligned /\ f_nread >= 1) =>
        LET w == f_written[f_nread]
        IN  /\ f_last.status = "ok"
            /\ f_last.val = w.val
            /\ w.kind = "string" => f_last.bytes = w.str
            /\ w.kind = "string" => w.nbytes = f_width + Len(w.str)
            /\ f_used = BytesWritten(f_nread)
            /\ f_nread = Len(f_written) => f_wire = <<>>

\* A u32 whose bytes all differ and a string of a two-byte character have
\* been written and read back.
C11_Witness ==
    /\ f_aligned /\ f_nread = 2
    /\ f_written[1].kind = "u32" /\ f_written[1].val = 16909060
    /\ f_written[2].kind = "string" /\ f_written[2].str = <<195, 169>>
    /\ f_last.op = "read_string" /\ f_last.status = "ok"

\* C12 as stated: a read on a stream that ended before the bytes it needs
\* had come, and a read_string of bytes that are not UTF-8, return an error.
C12_ShortReadFails ==
    (f_last.eof \/ f_last.bad_utf8) => f_last.status = "err"

\* The startup failed: switch_mount_namespace(1) or zygiskd::main returned an error.
StartupFailed ==
    \/ b_switch = "err"
    \/ \E i \in 1..Len(b_trace) : b_trace[i] = "daemon err"

\* C14 as stated: the process exits with code 0 when nothing failed and with
\* another code when the startup of the daemon failed.
C14_ExitCodes ==
    b_pc = "done" => (b_exit = 0 <=> ~StartupFailed)

\* C20: in daemon mode the steps taken are, in this order, the switch into
\* the namespace of PID 1, the root probe and the daemon core; once the
\* switch has failed, the switch is the only step there ever is.
C20_StartupOrder ==
    b_mode = "daemon" =>
        /\ \A i \in 1..Len(b_trace) :
              /\ b_trace[i] = "switch" => i = 1
              /\ b_trace[i] = "root" => (i = 2 /\ b_trace[1] = "switch" /\ b_switch = "ok")
              /\ b_trace[i] \in {"daemon ok", "daemon err"} => (i = 3 /\ b_trace[2] = "root")
        /\ b_switch = "err" => b_trace = <<"switch">>
        /\ b_pc \in {"setup", "main"} => b_switch = "ok"

\* The daemon has gone through the three steps, from another namespace.
C20_Witness ==
    /\ b_mode = "daemon"
    /\ Len(b_trace) = 3
    /\ b_trace[1] = "switch" /\ b_trace[2] = "root"
    /\ b_before.ns = "boot" /\ b_proc.ns = "init"

\* C15 as stated: the socket of a call was created with attr/sockcreate set
\* to the current attr, and when a call has returned Ok, or has returned
\* because connect or sendto failed, attr/sockcreate is u:r:zygote:s0.
C15_ContextRestored ==
    /\ s_socket # "none" => s_made_with = s_current
    /\ (s_ret.status = "ok" \/ s_ret.fail \in {"connect", "sendto"}) =>
          s_sockcreate = ZygoteContext

\* C16: is_socket_alive returns false exactly when poll failed or reported
\* an event other than POLLIN; so it returns false for a socket whose peer
\* has closed (data to read or not), that has an error, or whose descriptor
\* is not open, and true for a socket of a peer that has not closed, without
\* error, with or without data to read.
C16_AliveIffNoOtherEvent ==
    k_nchecks > 0 =>
        /\ ~k_last.alive <=>
              (k_last.ret < 0 \/ k_last.revents \cap {"POLLHUP", "POLLERR", "POLLNVAL"} # {})
        /\ k_last.ret >= 0 =>
              /\ (k_last.sock.peer = "closed" \/ k_last.sock.err \/ ~k_last.sock.fd_open)
                    => ~k_last.alive
              /\ (k_last.sock.peer = "open" /\ ~k_last.sock.err /\ k_last.sock.fd_open)
                    => k_last.alive

\* A socket with data to read and a peer that has not closed was found
\* alive, after poll reported POLLIN.
C16_Witness ==
    /\ k_nchecks > 0
    /\ k_last.alive
    /\ k_last.revents = {"POLLIN"}
    /\ k_last.sock.pending > 0 /\ k_last.sock.peer = "open"

\* The step closes the connection of handler h.
Closes(h) == d_conn[h].pc # "free" /\ d_conn'[h].pc = "free"

\* C13: a connection whose action byte is outside 0..8 is closed without an
\* action having run, and the step that closes it changes neither another
\* connection nor the companion registry nor the RootImpl, so that the
\* connections after it are served as if it had not been made.
C13_MalformedOnlyCloses ==
    /\ [](d_last.byte \notin (0..8) \cup {-1} =>
             d_last.ran = "none" /\ d_last.status = "closed")
    /\ [][\A h \in Handlers :
             (Closes(h) /\ d_last'.byte \notin 0..8) =>
                 /\ \A g \in Handlers \ {h} : d_conn'[g] = d_conn[g]
                 /\ UNCHANGED <<d_root, d_slot, d_lock, d_spawned, d_begun, d_done,
                                d_dropped>>]_vars

\* A connection accepted after one with a malformed byte was closed got
\* its companion socket.
C13_Witness ==
    /\ d_last.rej
    /\ d_last.ran = "RequestCompanionSocket"
    /\ d_last.status = "ok"

\* The handlers that hold the mutex of module m between the liveness check
\* and the end of the handshake.
Spawning(m) ==
    {h \in Handlers : d_conn[h].pc \in {"locked", "handshake"} /\ d_conn[h].mod = m}

\* C17: for each module at most one handler is between the liveness check
\* and the end of the handshake, it holds the mutex of the module, and the
\* slot is empty meanwhile (a dead socket was cleared before the spawn), so
\* that the cached socket and the socket of a handshake under way are never
\* two; and a cached socket that is returned was not dead.
C17_OneCompanionPerModule ==
    /\ \A m \in Modules :
          /\ Cardinality(Spawning(m)) <= 1
          /\ Spawning(m) # {} => d_slot[m] = NoSock /\ d_lock[m] \in Spawning(m)
          /\ Spawning(m) = {} => d_lock[m] = 0
    /\ d_last.reused => ~d_last.sock.dead

\* A handler is in the handshake with a new companion, after it found the
\* cached socket of the module dead and cleared it, while another connection
\* has been accepted.
C17_Witness ==
    \E h, g \in Handlers :
        /\ h # g
        /\ d_conn[h].pc = "handshake" /\ d_conn[h].found_dead
        /\ d_conn[g].pc = "accepted"

\* C18: a connection that sent action code 7 ran ZygoteRestart; no socket
\* cached before a ZygoteRestart began is still cached once it is completed;
\* and the socket a RequestCompanionSocket returns was cached after every
\* ZygoteRestart completed before the request was accepted had begun.
C18_FreshAfterRestart ==
    /\ d_last.byte = 7 => d_last.ran = "ZygoteRestart"
    /\ \A m \in Modules : d_slot[m] # NoSock => d_slot[m].born >= d_done
    /\ (d_last.ran = "RequestCompanionSocket" /\ d_last.status = "ok") =>
           d_last.sock.born >= d_last.epoch

\* A request accepted after a ZygoteRestart, for a module whose cached
\* socket a ZygoteRestart dropped, returned the socket of a new companion.
C18_Witness ==
    /\ d_last.ran = "RequestCompanionSocket" /\ d_last.status = "ok"
    /\ d_last.epoch >= 1
    /\ d_last.mod \in d_dropped
    /\ ~d_last.reused /\ d_last.sock.id >= 2

\* C19: the flags GetProcessFlags returns have bit 28 exactly when the
\* RootImpl is APatch, bit 29 exactly when it is KernelSU and bit 30 exactly
\* when it is Magisk (so at most one of the three), and no bit other than 0,
\* 1, 27, 28, 29 and 30.
C19_RootBits ==
    d_last.ran = "GetProcessFlags" =>
        /\ d_last.flags >= 0
        /\ HasBit(d_last.flags, 28) <=> d_root = "APatch"
        /\ HasBit(d_last.flags, 29) <=> d_root = "KernelSU"
        /\ HasBit(d_last.flags, 30) <=> d_root = "Magisk"
        /\ \A n \in (0..30) \ {0, 1, 27, 28, 29, 30} : ~HasBit(d_last.flags, n)

\* GetProcessFlags under KernelSU answered for a uid that is the manager
\* and was granted root.
C19_Witness ==
    /\ d_last.ran = "GetProcessFlags"
    /\ d_root = "KernelSU"
    /\ HasBit(d_last.flags, 29) /\ HasBit(d_last.flags, 27) /\ HasBit(d_last.flags, 0)

\* C21 as stated: a call stores its FD in a slot only when its capture child
\* wrote the readiness byte, that is after the child's setns and, for Clean,
\* its unshare and mount cleaning; a child that closed the pipe without
\* writing leads to no cached FD.
C21_StoredOnlyAfterReady ==
    \A t \in Threads :
        (ret[t].op = "save" /\ ret[t].stored) =>
            /\ ret[t].child.ready
            /\ ret[t].nread = 1
            /\ ret[t].child.fail = "none"

\* C22 as stated: when save_mount_namespace returns after it forked, with Ok
\* or with an error, the capture child of the call has been killed and
\* reaped.
C22_ChildReaped ==
    \A t \in Threads :
        (ret[t].op = "save" /\ ret[t].child.state # "none") =>
            ret[t].child.state = "reaped"

\* C23 as stated: when no system call of a capture has failed, every call of
\* save_mount_namespace that has returned has returned Ok, with the FD that
\* is in the slot of its kind.
C23_ConcurrentCallersOk ==
    nfailed = 0 =>
        \A t \in Threads :
            ret[t].op = "save" =>
                /\ ret[t].ok
                /\ ret[t].fd = mnt_ns_fd[ret[t].kind]

\* C24 as stated: no step of save_mount_namespace, in the parent or in the
\* capture child, changes the mount namespace the daemon is in, its working
\* directory, or the mount table of its namespace.
C24_DaemonUnchanged ==
    [][/\ daemon' = daemon
       /\ ns_mounts'[daemon.ns] = ns_mounts[daemon.ns]]_vars

====
